---- MODULE Spec2Model ----
(***************************************************************************)
(* Absurdle solver notebook (solver.ipynb): the Wordle pattern matcher     *)
(* (append_sequence_no, match_pattern_vec, match_pattern) and the one      *)
(* adversarial oracle step (reduce_targets_by_test).                       *)
(*                                                                         *)
(* Words are the sequences of code points tf.strings.unicode_decode        *)
(* yields.  Tensors are 1-based sequences here; letter values keep the     *)
(* code's 0..25 range, and -1 is the code's mask value.                    *)
(*                                                                         *)
(* tf.gather_nd with an index outside the tensor is device dependent: the  *)
(* CPU kernel raises InvalidArgumentError, the GPU kernel stores 0.  The   *)
(* variable device is the kernel the build runs; both are modelled.        *)
(***************************************************************************)
EXTENDS Integers, Sequences, FiniteSets

VARIABLES device,      \* kernel that executes tf.gather_nd: "CPU" or "GPU"
          answers,     \* valid_answers: the list the game starts from
          survivors,   \* the surviving list the caller holds
          targets,     \* argument targets of the last reduce_targets_by_test call
          test,        \* argument test of the last call (oracle or matcher)
          outcome,     \* "none", "returned" or "InvalidArgumentError" for the last oracle call
          target,      \* argument target of the last matcher call
          vec,         \* match_pattern_vec's result, [ok, val]
          pattern,     \* match_pattern's result, [ok, val]
          pc           \* "start", "matched" (matcher runs), "game" (oracle runs)

vars == <<device, answers, survivors, targets, test, outcome, target, vec, pattern, pc>>

\* ---------------------------------------------------------------- bounds
\* number of words of WordPool that make up the vocabulary
NWords == 6
\* longest answer list a game starts from
MaxAnswers == 3

\* ------------------------------------------------------ program constants
word_length == 5
\* depth of tf.one_hot in append_sequence_no
one_hot_depth == 26
\* code point of 'a', subtracted from the decoded words
char_offset == 97
\* base of the pattern number
ternary_base == 3

\* ------------------------------------------------------------- vocabulary
\* abide, speed, abbey, lucky, abode, eerie, steed, erase (lowercase code points)
WordPool ==
  << <<97, 98, 105, 100, 101>>,
     <<115, 112, 101, 101, 100>>,
     <<97, 98, 98, 101, 121>>,
     <<108, 117, 99, 107, 121>>,
     <<97, 98, 111, 100, 101>>,
     <<101, 101, 114, 105, 101>>,
     <<115, 116, 101, 101, 100>>,
     <<101, 114, 97, 115, 101>> >>

abide == WordPool[1]
speed == WordPool[2]
abbey == WordPool[3]
lucky == WordPool[4]

PoolSize == IF NWords < Len(WordPool) THEN NWords ELSE Len(WordPool)

\* valid_guesses: the words legally playable
valid_guesses == {WordPool[i] : i \in 1..PoolSize}

Devices == {"CPU", "GPU"}

Positions == 1..word_length

\* ------------------------------------------------------------ tensor ops
\* (tf.strings.unicode_decode(w, 'UTF-8') - 97), reshaped to (word_length,)
decode(w) == [i \in Positions |-> w[i] - char_offset]

\* tf.one_hot(x, 26): all zeros when x is outside 0..25
one_hot(x) == [j \in 0..(one_hot_depth - 1) |-> IF j = x THEN 1 ELSE 0]

\* tf.scan(lambda a, x: a + tf.one_hot(x, 26), word, tf.zeros(26)): row i is the
\* running letter count after positions 1..i
RECURSIVE scan_counter(_, _)
scan_counter(word, i) ==
  IF i = 0 THEN [j \in 0..(one_hot_depth - 1) |-> 0]
  ELSE LET a == scan_counter(word, i - 1)
           h == one_hot(word[i])
       IN  [j \in 0..(one_hot_depth - 1) |-> a[j] + h[j]]

\* tf.gather_nd(counter, [[i, x]]) for one index pair: out of bounds raises on
\* the CPU kernel and yields 0 on the GPU kernel
gather_nd(dev, word, i, x) ==
  IF x \in 0..(one_hot_depth - 1)
  THEN [ok |-> TRUE, val |-> scan_counter(word, i)[x]]
  ELSE IF dev = "GPU" THEN [ok |-> TRUE, val |-> 0]
       ELSE [ok |-> FALSE, val |-> 0]

\* append_sequence_no(word): rows (letter, sequence number of that letter)
append_sequence_no(dev, word) ==
  LET g == [i \in Positions |-> gather_nd(dev, word, i, word[i])]
  IN  [ok  |-> \A i \in Positions : g[i].ok,
       val |-> [i \in Positions |-> <<word[i], g[i].val>>]]

\* green_mask = tf.cast(test == target, tf.int32)
green_mask(t, g) == [i \in Positions |-> IF t[i] = g[i] THEN 1 ELSE 0]

\* test_masked = tf.where(green_mask, -1, test)
test_masked(t, g) == [i \in Positions |-> IF green_mask(t, g)[i] = 1 THEN -1 ELSE t[i]]

\* yellow_mask: a test row equal to any target row (letter and sequence number)
yellow_mask(ts, gs) ==
  [i \in Positions |-> IF \E j \in Positions : ts[i] = gs[j] THEN 1 ELSE 0]

\* match_pattern_vec(test, target) -> (2 * green_mask) + (1 * yellow_mask)
match_pattern_vec(dev, tw, gw) ==
  LET t  == decode(tw)
      g  == decode(gw)
      ts == append_sequence_no(dev, test_masked(t, g))
      gs == append_sequence_no(dev, g)
  IN  IF ts.ok /\ gs.ok
      THEN [ok  |-> TRUE,
            val |-> [i \in Positions |->
                       2 * green_mask(t, g)[i] + yellow_mask(ts.val, gs.val)[i]]]
      ELSE [ok |-> FALSE, val |-> <<>>]

RECURSIVE Pow(_, _)
Pow(b, e) == IF e = 0 THEN 1 ELSE b * Pow(b, e - 1)

RECURSIVE reduce_sum(_, _)
reduce_sum(s, n) == IF n = 0 THEN 0 ELSE s[n] + reduce_sum(s, n - 1)

\* match_pattern: tf.reduce_sum(vec * 3 ** tf.range(word_length)); position 0 of
\* the code (position 1 here) is the least significant digit
match_pattern(dev, tw, gw) ==
  LET v == match_pattern_vec(dev, tw, gw)
  IN  IF v.ok
      THEN [ok  |-> TRUE,
            val |-> reduce_sum([i \in Positions |-> v.val[i] * Pow(ternary_base, i - 1)],
                               word_length)]
      ELSE [ok |-> FALSE, val |-> -1]

\* ---------------------------------------------------------------- matcher
NoResult == [ok |-> FALSE, val |-> <<>>]

InitMatch ==
  /\ device \in Devices
  /\ test \in valid_guesses
  /\ target \in valid_guesses
  /\ pc = "start"
  /\ vec = NoResult
  /\ pattern = NoResult
  /\ answers = <<>>
  /\ survivors = <<>>
  /\ targets = <<>>
  /\ outcome = "none"

\* one call match_pattern(test, target), which calls match_pattern_vec
Match ==
  /\ pc = "start"
  /\ vec' = match_pattern_vec(device, test, target)
  /\ pattern' = match_pattern(device, test, target)
  /\ pc' = "matched"
  /\ UNCHANGED <<device, answers, survivors, targets, test, outcome, target>>

NextMatch == Match

SpecMatch == InitMatch /\ [][NextMatch]_vars

\* ----------------------------------------------------------------- oracle
\* match_pattern is pure: its values over the vocabulary, computed once
pattern_table ==
  {<<d, t, g, match_pattern(d, t, g)>> : d \in Devices, t \in valid_guesses, g \in valid_guesses}

pattern_of(dev, tw, gw) ==
  (CHOOSE e \in pattern_table : e[1] = dev /\ e[2] = tw /\ e[3] = gw)[4]

\* patterns = tf.map_fn(lambda target: match_pattern(test, target), targets)
RECURSIVE map_patterns(_, _, _)
map_patterns(dev, tg, tw) ==
  IF tg = <<>> THEN <<>>
  ELSE Append(map_patterns(dev, SubSeq(tg, 1, Len(tg) - 1), tw),
              pattern_of(dev, tw, tg[Len(tg)]))

\* y as numpy.unique would give it: the distinct values in ascending order
RECURSIVE unique_sorted(_)
unique_sorted(s) ==
  IF s = <<>> THEN <<>>
  ELSE LET u == unique_sorted(SubSeq(s, 1, Len(s) - 1))
           x == s[Len(s)]
           lo == SelectSeq(u, LAMBDA v : v < x)
           hi == SelectSeq(u, LAMBDA v : v > x)
       IN  lo \o <<x>> \o hi

\* y of tf.unique_with_counts: the distinct values in order of first occurrence
RECURSIVE unique(_)
unique(s) ==
  IF s = <<>> THEN <<>>
  ELSE LET u == unique(SubSeq(s, 1, Len(s) - 1))
           x == s[Len(s)]
       IN  IF \E k \in 1..Len(u) : u[k] = x THEN u ELSE Append(u, x)

\* idx of tf.unique_with_counts: for each element its index in y (1-based here)
RECURSIVE unique_idx(_, _)
unique_idx(s, y) ==
  IF s = <<>> THEN <<>>
  ELSE Append(unique_idx(SubSeq(s, 1, Len(s) - 1), y),
              CHOOSE k \in 1..Len(y) : y[k] = s[Len(s)])

\* count of tf.unique_with_counts: occurrences of each distinct value
RECURSIVE unique_counts(_, _)
unique_counts(s, y) ==
  IF y = <<>> THEN <<>>
  ELSE Append(unique_counts(s, SubSeq(y, 1, Len(y) - 1)),
              Cardinality({i \in 1..Len(s) : s[i] = y[Len(y)]}))

\* argmax with tf.argmin in its place: the smallest index holding the smallest value
argmin_counts(c) ==
  CHOOSE k \in 1..Len(c) :
    /\ \A j \in 1..Len(c) : c[k] <= c[j]
    /\ \A j \in 1..(k - 1) : c[k] < c[j]

\* argmax resolving ties to the last index holding the largest value
argmax_last(c) ==
  CHOOSE k \in 1..Len(c) :
    /\ \A j \in 1..Len(c) : c[j] <= c[k]
    /\ \A j \in (k + 1)..Len(c) : c[j] < c[k]

\* tf.argmax: the smallest index holding the largest value
argmax(c) ==
  CHOOSE k \in 1..Len(c) :
    /\ \A j \in 1..Len(c) : c[j] <= c[k]
    /\ \A j \in 1..(k - 1) : c[j] < c[k]

\* the mask with != for ==: targets[pattern_indices != idx_max]
RECURSIVE boolean_mask_negated(_, _, _)
boolean_mask_negated(s, idx, k) ==
  IF s = <<>> THEN <<>>
  ELSE LET r == boolean_mask_negated(SubSeq(s, 1, Len(s) - 1), SubSeq(idx, 1, Len(s) - 1), k)
       IN  IF idx[Len(s)] # k THEN Append(r, s[Len(s)]) ELSE r

\* the mask applied back to front: the selected elements in reverse order
RECURSIVE boolean_mask_reversed(_, _, _)
boolean_mask_reversed(s, idx, k) ==
  IF s = <<>> THEN <<>>
  ELSE LET r == boolean_mask_reversed(SubSeq(s, 1, Len(s) - 1), SubSeq(idx, 1, Len(s) - 1), k)
       IN  IF idx[Len(s)] = k THEN <<s[Len(s)]>> \o r ELSE r

\* targets[pattern_indices == idx_max]: the elements whose index is idx_max, in
\* their order
RECURSIVE boolean_mask(_, _, _)
boolean_mask(s, idx, k) ==
  IF s = <<>> THEN <<>>
  ELSE LET r == boolean_mask(SubSeq(s, 1, Len(s) - 1), SubSeq(idx, 1, Len(s) - 1), k)
       IN  IF idx[Len(s)] = k THEN Append(r, s[Len(s)]) ELSE r

\* reduce_targets_by_test(targets, test)
reduce_targets_by_test(dev, tg, tw) ==
  LET pr == map_patterns(dev, tg, tw)
  IN  IF \E i \in 1..Len(tg) : ~pr[i].ok
      THEN [ok |-> FALSE, val |-> <<>>]
      ELSE LET patterns        == [i \in 1..Len(tg) |-> pr[i].val]
               unique_patterns == unique(patterns)
               pattern_indices == unique_idx(patterns, unique_patterns)
               pattern_counts  == unique_counts(patterns, unique_patterns)
               idx_max         == argmax(pattern_counts)
           IN  [ok  |-> TRUE,
                val |-> boolean_mask(tg, pattern_indices, idx_max)]

\* ------------------------------------------------------------------- game
\* answer lists: non-empty lists of pairwise distinct words of the vocabulary
AnswerLists ==
  {s \in UNION {[1..n -> valid_guesses] : n \in 1..MaxAnswers} :
     \A i, j \in 1..Len(s) : s[i] = s[j] => i = j}

Init ==
  /\ device \in Devices
  /\ answers \in AnswerLists
  /\ survivors = answers
  /\ targets = <<>>
  /\ test = <<>>
  /\ outcome = "none"
  /\ target = <<>>
  /\ vec = NoResult
  /\ pattern = NoResult
  /\ pc = "game"

\* survivors = reduce_targets_by_test(survivors, guess); a raised error leaves
\* the caller's list as it was
Reduce(guess) ==
  /\ pc = "game"
  /\ LET r == reduce_targets_by_test(device, survivors, guess)
     IN  /\ targets' = survivors
         /\ test' = guess
         /\ survivors' = IF r.ok THEN r.val ELSE survivors
         /\ outcome' = IF r.ok THEN "returned" ELSE "InvalidArgumentError"
  /\ UNCHANGED <<device, answers, target, vec, pattern, pc>>

Next == \E guess \in valid_guesses : Reduce(guess)

Spec == Init /\ [][Next]_vars

\* --------------------------------------------------------------- notebook
\* the notebook as a program: after the definitions its only call is the last
\* code cell, reduce_targets_by_test(valid_answers, valid_guesses.iloc[0])
InitNotebook ==
  /\ device \in Devices
  /\ answers \in AnswerLists
  /\ survivors = answers
  /\ targets = <<>>
  /\ test = <<>>
  /\ outcome = "none"
  /\ target = <<>>
  /\ vec = NoResult
  /\ pattern = NoResult
  /\ pc = "cell"

\* the last code cell, first being row 0 of the guess list the dataset supplies;
\* the notebook ends with the result of this one call
RunCell(first) ==
  /\ pc = "cell"
  /\ LET r == reduce_targets_by_test(device, answers, first)
     IN  /\ targets' = answers
         /\ test' = first
         /\ survivors' = IF r.ok THEN r.val ELSE survivors
         /\ outcome' = IF r.ok THEN "returned" ELSE "InvalidArgumentError"
  /\ pc' = "end"
  /\ UNCHANGED <<device, answers, target, vec, pattern>>

NextNotebook == \E first \in valid_guesses : RunCell(first)

SpecNotebook == InitNotebook /\ [][NextNotebook]_vars

\* ============================================================== properties
GREEN == 2
YELLOW == 1
BLACK == 0

\* The two-pass reference rule.  Pass 1 consumes the green positions of both
\* words; pass 2 scans the non-green positions of the test word from position i
\* on, used being the target positions consumed so far.
RefGreens(tw, gw) == {i \in Positions : tw[i] = gw[i]}

RECURSIVE RefPass2(_, _, _, _)
RefPass2(tw, gw, i, used) ==
  IF i > word_length THEN <<>>
  ELSE IF i \in RefGreens(tw, gw)
       THEN <<GREEN>> \o RefPass2(tw, gw, i + 1, used)
       ELSE LET free == {j \in Positions \ used : gw[j] = tw[i]}
            IN  IF free = {}
                THEN <<BLACK>> \o RefPass2(tw, gw, i + 1, used)
                ELSE LET j == CHOOSE m \in free : \A n \in free : m <= n
                     IN  <<YELLOW>> \o RefPass2(tw, gw, i + 1, used \cup {j})

Reference(tw, gw) == RefPass2(tw, gw, 1, RefGreens(tw, gw))

Letters == {WordPool[k][i] : k \in 1..Len(WordPool), i \in Positions}

\* positions of the test word holding letter v that the vector marks GREEN or YELLOW
Marked(v) == {i \in Positions : test[i] = v /\ vec.val[i] \in {GREEN, YELLOW}}

\* occurrences of letter v in the target word
Occurrences(v) == {j \in Positions : target[j] = v}

\* C1: the vector match_pattern_vec returns for a pair of words equals the
\* two-pass reference rule, in which a green match consumes the letter in the
\* target as well as in the test word.
C1_EqualsReference ==
  (pc = "matched" /\ vec.ok) => vec.val = Reference(test, target)

\* C2: repeated-letter conservation: for every letter, the positions of the test
\* word marked GREEN or YELLOW for it are no more than its occurrences in the
\* target word.
C2_Conservation ==
  (pc = "matched" /\ vec.ok) =>
    \A v \in Letters : Cardinality(Marked(v)) <= Cardinality(Occurrences(v))

\* C9: for test word speed and target word abide the vector is [0,0,1,0,1] and
\* match_pattern computes pattern number 10.
C9_SpeedAbide ==
  (pc = "matched" /\ test = speed /\ target = abide) =>
    /\ vec.ok /\ vec.val = <<0, 0, 1, 0, 1>>
    /\ pattern.ok /\ pattern.val = 10

\* ------------------------------------------------------- oracle properties
\* the last oracle call, reduce_targets_by_test(targets, test), has been made
CallMade == pc = "game" /\ outcome # "none"

\* feedback of candidate c against the guess of the last call
Feedback(c) == pattern_of(device, test, c)

IsInGroup(c, p) == Feedback(c).val = p

\* the candidates of targets whose pattern number is p, in the order of targets
Group(p) == SelectSeq(targets, LAMBDA c : IsInGroup(c, p))

GroupSize(p) == Len(Group(p))

PatternsSeen == {Feedback(targets[i]).val : i \in 1..Len(targets)}

\* the patterns whose group no other group exceeds in size
LargestPatterns == {p \in PatternsSeen : \A q \in PatternsSeen : GroupSize(q) <= GroupSize(p)}

SmallestTied == CHOOSE p \in LargestPatterns : \A q \in LargestPatterns : p <= q

FirstSeenTied ==
  LET i == CHOOSE k \in 1..Len(targets) :
             /\ Feedback(targets[k]).val \in LargestPatterns
             /\ \A j \in 1..(k - 1) : Feedback(targets[j]).val \notin LargestPatterns
  IN  Feedback(targets[i]).val

\* every candidate of targets has the same feedback against the guess
AllSamePattern ==
  \A i, j \in 1..Len(targets) : Feedback(targets[i]) = Feedback(targets[j])

\* s is a subsequence of the list a of pairwise distinct words
IsSubsequence(s, a) ==
  /\ \A i \in 1..Len(s) : \E k \in 1..Len(a) : a[k] = s[i]
  /\ \A i, j \in 1..Len(s) :
       i < j => \E k, m \in 1..Len(a) : k < m /\ a[k] = s[i] /\ a[m] = s[j]

\* C3 as stated: the call returns the largest pattern group, and among groups
\* tied for the largest size the one with the smallest pattern number.
C3_SmallestPatternTieBreak ==
  (CallMade /\ outcome = "returned") => survivors = Group(SmallestTied)

\* C3 amended: whenever the call returns, it returns the largest pattern group,
\* and among groups tied for the largest size the one whose pattern occurs
\* first in the order of the survivors list.
C3_FirstSeenTieBreak ==
  (CallMade /\ outcome = "returned") => survivors = Group(FirstSeenTied)

\* C3 witness: a call returned where two groups tie for the largest size and
\* the first seen is not the one of smallest pattern number.
C3_Witness ==
  /\ CallMade /\ outcome = "returned"
  /\ Cardinality(LargestPatterns) > 1
  /\ FirstSeenTied # SmallestTied
  /\ survivors = Group(FirstSeenTied)

\* C4: monotonicity of one oracle step: for every survivors list and guess the
\* call returns a list no longer than survivors, of equal length exactly when
\* every candidate has the same pattern against the guess.
C4_Monotone ==
  CallMade =>
    /\ outcome = "returned"
    /\ Len(survivors) <= Len(targets)
    /\ (Len(survivors) = Len(targets)) <=> AllSamePattern

\* C5: every surviving list reachable in a game is non-empty and a subsequence
\* of the initial answer list.
C5_NonEmptySubsequence ==
  pc = "game" => Len(survivors) >= 1 /\ IsSubsequence(survivors, answers)

\* C5 witness: a call returned a proper sublist of more than one word.
C5_Witness ==
  /\ CallMade /\ outcome = "returned"
  /\ Len(survivors) > 1
  /\ Len(survivors) < Len(answers)

\* a surviving list of size 1 is reachable from s with at most k guesses
RECURSIVE CanWin(_, _, _)
CanWin(dev, s, k) ==
  \/ Len(s) = 1
  \/ /\ k > 0
     /\ \E g \in valid_guesses :
          LET r == reduce_targets_by_test(dev, s, g)
          IN  r.ok /\ CanWin(dev, r.val, k - 1)

\* C6: from every answer list some sequence of at most |answer list| guesses
\* reaches a surviving list of size 1.
C6_Convergence ==
  (pc = "game" /\ outcome = "none") => CanWin(device, answers, Len(answers))

\* C7 as stated: every oracle step returns a strictly smaller list unless the
\* list already has size 1.
C7_EveryStepProgresses ==
  (CallMade /\ outcome = "returned") =>
    Len(survivors) < Len(targets) \/ Len(targets) = 1

\* C7 amended: after every oracle step the surviving list is strictly smaller
\* or exactly the list it was, and a returning call leaves it as it was exactly
\* when every candidate has the same pattern against the guess (at any size).
C7_ShrinksOrUnchanged ==
  CallMade =>
    /\ Len(survivors) < Len(targets) \/ survivors = targets
    /\ outcome = "returned" => ((survivors = targets) <=> AllSamePattern)

\* C7 witness: a call returned a list of more than one word unchanged.
C7_Witness ==
  /\ CallMade /\ outcome = "returned"
  /\ Len(targets) > 1
  /\ survivors = targets

\* C8: a call on a surviving list of size 1 returns that same list, whatever
\* the guess.
C8_TerminalIdempotent ==
  (CallMade /\ Len(targets) = 1) => outcome = "returned" /\ survivors = targets

\* the first guess speed on the answer list [abide, speed]
SpeedOnAbideSpeed ==
  CallMade /\ answers = <<abide, speed>> /\ targets = answers /\ test = speed

\* C10 as stated: answer list [abide, speed], first guess speed: the oracle
\* step returns [speed].
C10_SpeedSurvives ==
  (SpeedOnAbideSpeed /\ outcome = "returned") => survivors = <<speed>>

\* C10 amended: answer list [abide, speed], first guess speed: the surviving
\* list is never [speed]; a returning call returns [abide].
C10_AbideSurvives ==
  SpeedOnAbideSpeed =>
    /\ survivors # <<speed>>
    /\ outcome = "returned" => survivors = <<abide>>

\* C10 witness: the call on [abide, speed] with guess speed returned [abide].
C10_Witness ==
  SpeedOnAbideSpeed /\ outcome = "returned" /\ survivors = <<abide>>

\* ----------------------------------------------------- notebook properties
\* the guess sequence the notebook has played when it ends
GuessesPlayed == IF pc = "end" THEN <<test>> ELSE <<>>

\* C11: for an answer list of more than one word the program returns a guess
\* sequence that drives the surviving list to size 1 and whose length is the
\* shortest winning length found by brute force over all guess sequences.
C11_MinimalWinningSequence ==
  (pc = "end" /\ outcome = "returned" /\ Len(answers) > 1) =>
    /\ Len(survivors) = 1
    /\ CanWin(device, answers, Len(GuessesPlayed))
    /\ ~CanWin(device, answers, Len(GuessesPlayed) - 1)

\* ------------------------------------------------------ matcher, continued
\* C12: scoring a word against itself marks every position GREEN and
\* match_pattern returns 3^L - 1, which is 242 for L = 5.
C12_SelfMatchAllGreen ==
  (pc = "matched" /\ test = target) =>
    /\ vec.ok /\ \A i \in Positions : vec.val[i] = GREEN
    /\ pattern.ok /\ pattern.val = Pow(ternary_base, word_length) - 1
    /\ Pow(ternary_base, word_length) - 1 = 242

\* ------------------------------------------------------- oracle, continued
Reverse(s) == [i \in 1..Len(s) |-> s[Len(s) + 1 - i]]

\* pattern number of the k-th candidate of list tg against the guess of the last call
PatternAt(tg, k) == pattern_of(device, test, tg[k]).val

\* size of the pattern group the k-th candidate of tg belongs to
SizeAt(tg, k) == Cardinality({i \in 1..Len(tg) : PatternAt(tg, i) = PatternAt(tg, k)})

\* position of the earliest candidate of tg that belongs to a group of largest size
EarliestLargest(tg) ==
  CHOOSE k \in 1..Len(tg) :
    /\ \A j \in 1..Len(tg) : SizeAt(tg, j) <= SizeAt(tg, k)
    /\ \A j \in 1..(k - 1) : SizeAt(tg, j) < SizeAt(tg, k)

\* the pattern group of the k-th candidate of tg, in the order of tg
GroupAt(tg, k) ==
  SelectSeq(tg, LAMBDA c : pattern_of(device, test, c).val = PatternAt(tg, k))

\* the last call returned and several pattern groups tie for the largest size
TiedCall == CallMade /\ outcome = "returned" /\ Cardinality(LargestPatterns) > 1

Words(s) == {s[i] : i \in 1..Len(s)}

\* C13: when several pattern groups tie for the largest size, the call returns
\* the tied group that holds the earliest-positioned survivor, whatever the
\* pattern numbers are; the same call on the reordered (reversed) list returns
\* the group that is earliest in the reordered list.
C13_EarliestGroupWins ==
  TiedCall =>
    /\ survivors = GroupAt(targets, EarliestLargest(targets))
    /\ LET r == reduce_targets_by_test(device, Reverse(targets), test)
       IN  /\ r.ok
           /\ r.val = GroupAt(Reverse(targets), EarliestLargest(Reverse(targets)))

\* C13 witness: a tied call returned the earliest group although its pattern
\* number is not the smallest of the tied ones, and the call on the reversed
\* list returns another group.
C13_Witness ==
  /\ TiedCall
  /\ survivors = GroupAt(targets, EarliestLargest(targets))
  /\ PatternAt(survivors, 1) > SmallestTied
  /\ Words(reduce_targets_by_test(device, Reverse(targets), test).val) # Words(survivors)

====
